---- MODULE Spec2Model ----
(***************************************************************************)
(* QuadKernRateLimiter (src/src/security/rateLimiter.ts): the sliding      *)
(* window throttle, its unblock timers and its cleanup interval, as a      *)
(* state machine over the browser's single-threaded event loop.            *)
(*                                                                         *)
(* Time is Date.now() in milliseconds.  The general specifications advance *)
(* it in steps of TickMs; the scenario specification moves it through the  *)
(* instants of the spec's worked example.  A timer callback runs at some   *)
(* instant at or after its due time, never before.                         *)
(***************************************************************************)
EXTENDS Integers, Sequences, FiniteSets, Bags

VARIABLES
    now,            \* Date.now()
    config,         \* this.config (enableLogging has no effect on the state)
    clients,        \* this.clients : Map<string, ClientInfo>
    blockedIPs,     \* this.blockedIPs : Set<string>
    suspiciousIPs,  \* this.suspiciousIPs : Set<string>
    timers,         \* pending setTimeout callbacks of blockClient (a bag)
    cleanupDue,     \* due time of the next setInterval callback of startCleanup
    ret,            \* the last public call: operation, key, returned value
    run,            \* history: the calls for the watched key since it last was fresh
    admitted,       \* history: the times of the watched key's calls that returned true
    lastBlock,      \* history: the last call that blocked the watched key
    probe,          \* history: what isBlocked returned for the watched key
    trace,          \* history: the checkRateLimit calls of the worked example, in order
    clears,         \* number of clearBlockedIPs calls made
    reset,          \* history: what getTimeUntilReset last returned for the watched key
    app,            \* the QuadKernApp of the page: its modules and flags
    fp,             \* generateFingerprint: the joined string, the loop index, hash, the key returned
    epConfig,       \* QuadKernEndpointProtection: this.config
    cache,          \* QuadKernEndpointProtection: this.cache, cache key -> entry
    requestQueue,   \* QuadKernEndpointProtection: this.requestQueue, request key -> call
    calls,          \* the makeRequest calls in flight, each where its executeRequest stands
    cacheDue,       \* when the cache cleanup interval fires next
    done,           \* history: how the makeRequest call that settled last went
    atClear         \* history: the watched key's record when clearBlockedIPs was last called

progVars == <<now, config, clients, blockedIPs, suspiciousIPs, timers, cleanupDue>>
histVars == <<run, admitted, lastBlock, probe, trace, reset>>
epVars == <<epConfig, cache, requestQueue, calls, cacheDue, done>>
vars == <<now, config, clients, blockedIPs, suspiciousIPs, timers, cleanupDue,
          ret, run, admitted, lastBlock, probe, trace, clears, reset, app,
          fp, epConfig, cache, requestQueue, calls, cacheDue, done, atClear>>

(***************************************************************************)
(* Bounds of the model and constants of the program.                       *)
(***************************************************************************)
CleanupIntervalMs == 300000
TickMs == 100000
MaxTicks == 5
MaxRequestsBound == 2
MaxClears == 1
MaxLateTicks == 0
MaxTrace == 7

MaxTime == MaxTicks * TickMs

\* The fingerprints the environment can produce over a page's life.
Keys == {"k1", "k2"}

Max(a, b) == IF a >= b THEN a ELSE b

\* The configurations a limiter is constructed with: positive numbers.
Configs ==
    [maxRequests : 1..MaxRequestsBound,
     windowMs : {TickMs, 2 * TickMs},
     blockDurationMs : {TickMs, 3 * TickMs}]

NoCall == [op |-> "none", ip |-> "none", val |-> FALSE, path |-> "none", recs |-> -1]
NoRun == [start |-> -1, n |-> 0]
NoBlock == [at |-> -1, dur |-> 0, cleared |-> FALSE, called |-> FALSE, rel |-> "none"]
NoProbe == [seen |-> {}, quiet |-> {}]
NoReset == [read |-> FALSE, first |-> 0, val |-> 0]

\* a QuadKernApp that has not been constructed: the fields' initial values
NoApp ==
    [phase |-> "none", config |-> "none", performance |-> FALSE, navigation |-> FALSE,
     effects |-> FALSE, isInitialized |-> FALSE, extremeMode |-> FALSE, checks |-> 0,
     checkedFirst |-> TRUE, outcome |-> "none", logged |-> FALSE, escaped |-> FALSE]

(***************************************************************************)
(* Helpers on the Map and on the timestamp arrays.                         *)
(***************************************************************************)
\* Map.set
MapSet(m, k, v) == [x \in (DOMAIN m) \cup {k} |-> IF x = k THEN v ELSE m[x]]

\* InWindow keeping a timestamp exactly windowMs old (<= for <)
InWindow_Inclusive(requests, t, windowMs) ==
    SelectSeq(requests, LAMBDA ts : t - ts <= windowMs)

\* requests.filter(timestamp => t - timestamp < windowMs)
InWindow(requests, t, windowMs) ==
    SelectSeq(requests, LAMBDA ts : t - ts < windowMs)

\* requests.filter(timestamp => timestamp > cutoff)
NewerThan(requests, cutoff) ==
    SelectSeq(requests, LAMBDA ts : ts > cutoff)

\* the ClientInfo created for an unseen key
NewClient(ip) == [ip |-> ip, requests |-> <<>>, blocked |-> FALSE, blockUntil |-> 0]

\* clearBlockedIPs not yet called
NoClear == [at |-> -1, requests |-> <<>>, called |-> FALSE]

\* generateFingerprint not yet called
NoFp == [fingerprint |-> <<>>, i |-> 0, hash |-> [hi |-> 0, lo |-> 0], key |-> <<>>, pc |-> "none"]

\* new QuadKernEndpointProtection(): the defaults of its constructor
DefaultEndpointConfig ==
    [timeout |-> 10000, retries |-> 3, enableCache |-> TRUE, cacheTimeout |-> 300000]

\* the period of the setInterval of startCacheCleanup
CacheCleanupIntervalMs == 60000

\* no value: what a call that was rejected resolved with
NoValue == [at |-> -1, truthy |-> FALSE]

\* no makeRequest call settled yet
NoDone == [endpointId |-> "none", data |-> "none", from |-> "none", outcome |-> "none",
           value |-> NoValue, error |-> "none", attempts |-> 0, waits |-> <<>>,
           errors |-> <<>>, at |-> -1]

(***************************************************************************)
(* The pure reads, as the code computes them.                              *)
(***************************************************************************)
\* isBlocked(): this.blockedIPs.has(clientIP)
IsBlocked(ip) == ip \in blockedIPs

\* GetRemainingRequests counting every recorded timestamp, stale ones included
GetRemainingRequests_CountsStale(ip) ==
    IF ip \in DOMAIN clients
    THEN Max(0, config.maxRequests - Len(clients[ip].requests))
    ELSE config.maxRequests

\* getRemainingRequests()
GetRemainingRequests(ip) ==
    IF ip \notin DOMAIN clients
    THEN config.maxRequests
    ELSE Max(0, config.maxRequests
                - Len(InWindow(clients[ip].requests, now, config.windowMs)))

\* Math.min(...client.requests)
MinOf(requests) ==
    CHOOSE m \in {requests[i] : i \in DOMAIN requests} :
        \A i \in DOMAIN requests : m <= requests[i]

\* Math.max(...client.requests)
MaxOf(requests) ==
    CHOOSE m \in {requests[i] : i \in DOMAIN requests} :
        \A i \in DOMAIN requests : m >= requests[i]

\* GetTimeUntilReset measured from the newest timestamp, not the oldest
GetTimeUntilReset_Newest(ip) ==
    IF ip \notin DOMAIN clients \/ Len(clients[ip].requests) = 0
    THEN 0
    ELSE Max(0, config.windowMs - (now - MaxOf(clients[ip].requests)))

\* getTimeUntilReset()
GetTimeUntilReset(ip) ==
    IF ip \notin DOMAIN clients \/ Len(clients[ip].requests) = 0
    THEN 0
    ELSE Max(0, config.windowMs - (now - MinOf(clients[ip].requests)))

\* getStats()
GetStats ==
    [totalClients |-> Cardinality(DOMAIN clients),
     blockedIPs |-> Cardinality(blockedIPs),
     suspiciousIPs |-> Cardinality(suspiciousIPs),
     config |-> config]

(***************************************************************************)
(* The state after construction: the constructor stores the configuration  *)
(* and startCleanup() schedules the interval.                              *)
(***************************************************************************)
\* the limiter after its constructor, nothing called yet
InitThrottle(cfgs) ==
    /\ now = 0
    /\ config \in cfgs
    /\ clients = <<>>
    /\ blockedIPs = {}
    /\ suspiciousIPs = {}
    /\ timers = EmptyBag
    /\ cleanupDue = CleanupIntervalMs
    /\ ret = NoCall
    /\ run = NoRun
    /\ admitted = <<>>
    /\ lastBlock = NoBlock
    /\ probe = NoProbe
    /\ trace = <<>>
    /\ clears = 0
    /\ reset = NoReset
    /\ app = NoApp
    /\ atClear = NoClear

\* the endpoint protection after its constructor, nothing called yet
InitEndpoints(epcfgs) ==
    /\ epConfig \in epcfgs
    /\ cache = <<>>
    /\ requestQueue = <<>>
    /\ calls = <<>>
    /\ cacheDue = CacheCleanupIntervalMs
    /\ done = NoDone

InitLimiter(cfgs) ==
    /\ InitThrottle(cfgs)
    /\ fp = NoFp
    /\ InitEndpoints({DefaultEndpointConfig})

Init == InitLimiter(Configs)

(***************************************************************************)
(* checkRateLimit() and blockClient().                                     *)
(***************************************************************************)
\* BlockClient blocking every key that has a record
BlockClient_AllClients(ip) ==
    /\ blockedIPs' = blockedIPs \cup (DOMAIN clients) \cup {ip}
    /\ suspiciousIPs' = suspiciousIPs \cup {ip}
    /\ timers' = timers (+) SetToBag({[ip |-> ip, due |-> now + config.blockDurationMs]})

\* BlockClient with the timer set to the window length, not the block duration
BlockClient_WindowTimer(ip) ==
    /\ blockedIPs' = blockedIPs \cup {ip}
    /\ suspiciousIPs' = suspiciousIPs \cup {ip}
    /\ timers' = timers (+) SetToBag({[ip |-> ip, due |-> now + config.windowMs]})

\* BlockClient that schedules no unblock timer
BlockClient_NoTimer(ip) ==
    /\ blockedIPs' = blockedIPs \cup {ip}
    /\ suspiciousIPs' = suspiciousIPs \cup {ip}
    /\ timers' = timers

\* blockClient(ip, now): both sets gain the key, setTimeout schedules the unblock
BlockClient(ip) ==
    /\ blockedIPs' = blockedIPs \cup {ip}
    /\ suspiciousIPs' = suspiciousIPs \cup {ip}
    /\ timers' = timers (+) SetToBag({[ip |-> ip, due |-> now + config.blockDurationMs]})

\* the record checkRateLimit works on: the stored one, or a new one
ClientOf(ip) == IF ip \in DOMAIN clients THEN clients[ip] ELSE NewClient(ip)

\* how many timestamps the key's record holds, -1 when it has no record
RecordLen(ip) == IF ip \in DOMAIN clients THEN Len(clients[ip].requests) ELSE -1

\* PathOf with the limit test off by one (> for >=)
PathOf_OffByOne(ip) ==
    IF ip \in blockedIPs THEN "blocked"
    ELSE IF Len(InWindow(ClientOf(ip).requests, now, config.windowMs)) > config.maxRequests
         THEN "limit"
         ELSE "admit"

\* PathOf blocking at the call that would fill the window (maxRequests - 1 kept)
PathOf_Early(ip) ==
    IF ip \in blockedIPs THEN "blocked"
    ELSE IF Len(InWindow(ClientOf(ip).requests, now, config.windowMs)) >= config.maxRequests - 1
         THEN "limit"
         ELSE "admit"

\* the branch a checkRateLimit call takes
PathOf(ip) ==
    IF ip \in blockedIPs THEN "blocked"
    ELSE IF Len(InWindow(ClientOf(ip).requests, now, config.windowMs)) >= config.maxRequests
         THEN "limit"
         ELSE "admit"

\* CheckRateLimit without the test of the blocked set
CheckRateLimit_NoBlockedTest(ip) ==
    LET pruned == InWindow(ClientOf(ip).requests, now, config.windowMs)
        path == IF Len(pruned) >= config.maxRequests THEN "limit" ELSE "admit"
    IN  /\ ret' = [op |-> "checkRateLimit", ip |-> ip, val |-> (path = "admit"),
                   path |-> path, recs |-> RecordLen(ip)]
        /\ CASE path = "limit" ->
                    /\ clients' = MapSet(clients, ip, [ClientOf(ip) EXCEPT !.requests = pruned])
                    /\ BlockClient(ip)
             [] path = "admit" ->
                    /\ clients' = MapSet(clients, ip,
                                         [ClientOf(ip) EXCEPT !.requests = Append(pruned, now)])
                    /\ UNCHANGED <<blockedIPs, suspiciousIPs, timers>>
        /\ UNCHANGED <<now, config, cleanupDue>>

\* CheckRateLimit recording the time of a denied call too
CheckRateLimit_CountsDenied(ip) ==
    LET pruned == InWindow(ClientOf(ip).requests, now, config.windowMs)
        path == PathOf(ip)
    IN  /\ ret' = [op |-> "checkRateLimit", ip |-> ip, val |-> (path = "admit"),
                   path |-> path, recs |-> RecordLen(ip)]
        /\ CASE path = "blocked" ->
                    UNCHANGED <<clients, blockedIPs, suspiciousIPs, timers>>
             [] path = "limit" ->
                    /\ clients' = MapSet(clients, ip,
                                         [ClientOf(ip) EXCEPT !.requests = Append(pruned, now)])
                    /\ BlockClient(ip)
             [] path = "admit" ->
                    /\ clients' = MapSet(clients, ip,
                                         [ClientOf(ip) EXCEPT !.requests = Append(pruned, now)])
                    /\ UNCHANGED <<blockedIPs, suspiciousIPs, timers>>
        /\ UNCHANGED <<now, config, cleanupDue>>

\* checkRateLimit() once the key is known
CheckRateLimit(ip) ==
    LET pruned == InWindow(ClientOf(ip).requests, now, config.windowMs)
        path == PathOf(ip)
    IN  /\ ret' = [op |-> "checkRateLimit", ip |-> ip, val |-> (path = "admit"),
                   path |-> path, recs |-> RecordLen(ip)]
        /\ CASE path = "blocked" ->
                    UNCHANGED <<clients, blockedIPs, suspiciousIPs, timers>>
             [] path = "limit" ->
                    /\ clients' = MapSet(clients, ip, [ClientOf(ip) EXCEPT !.requests = pruned])
                    /\ BlockClient(ip)
             [] path = "admit" ->
                    /\ clients' = MapSet(clients, ip,
                                         [ClientOf(ip) EXCEPT !.requests = Append(pruned, now)])
                    /\ UNCHANGED <<blockedIPs, suspiciousIPs, timers>>
        /\ UNCHANGED <<now, config, cleanupDue>>

(***************************************************************************)
(* The callbacks: the unblock timer of blockClient, the cleanup interval.  *)
(***************************************************************************)
\* setTimeout(() => this.blockedIPs.delete(ip), blockDurationMs)
UnblockTimer(tm) ==
    /\ BagIn(tm, timers)
    /\ tm.due <= now
    /\ timers' = timers (-) SetToBag({tm})
    /\ blockedIPs' = blockedIPs \ {tm.ip}
    /\ UNCHANGED <<now, config, clients, suspiciousIPs, cleanupDue, ret>>

\* the sweep without its delete: a record left with no timestamp stays in the map
Swept_KeepsEmpty(cutoff) ==
    [ip \in DOMAIN clients |-> [clients[ip] EXCEPT !.requests = NewerThan(clients[ip].requests, cutoff)]]

\* the records the sweep keeps, each with the timestamps it keeps
Swept(cutoff) ==
    LET keep == {ip \in DOMAIN clients : Len(NewerThan(clients[ip].requests, cutoff)) # 0}
    IN  [ip \in keep |-> [clients[ip] EXCEPT !.requests = NewerThan(clients[ip].requests, cutoff)]]

\* Cleanup with a sweep that also unblocks the keys whose records it deletes
Cleanup_Unblocks ==
    /\ cleanupDue <= now
    /\ clients' = Swept(now - (config.windowMs * 2))
    /\ blockedIPs' = blockedIPs \ ((DOMAIN clients) \ DOMAIN Swept(now - (config.windowMs * 2)))
    /\ cleanupDue' = cleanupDue + CleanupIntervalMs
    /\ UNCHANGED <<now, config, suspiciousIPs, timers, ret>>

\* Cleanup with a sweep that empties the map
Cleanup_DropsAll ==
    /\ cleanupDue <= now
    /\ clients' = <<>>
    /\ cleanupDue' = cleanupDue + CleanupIntervalMs
    /\ UNCHANGED <<now, config, blockedIPs, suspiciousIPs, timers, ret>>

\* Cleanup with the cutoff one window back, not two
Cleanup_OneWindow ==
    /\ cleanupDue <= now
    /\ clients' = Swept(now - config.windowMs)
    /\ cleanupDue' = cleanupDue + CleanupIntervalMs
    /\ UNCHANGED <<now, config, blockedIPs, suspiciousIPs, timers, ret>>

\* the setInterval callback of startCleanup
Cleanup ==
    /\ cleanupDue <= now
    /\ clients' = Swept(now - (config.windowMs * 2))
    /\ cleanupDue' = cleanupDue + CleanupIntervalMs
    /\ UNCHANGED <<now, config, blockedIPs, suspiciousIPs, timers, ret>>

(***************************************************************************)
(* The administrative calls.                                               *)
(***************************************************************************)
\* ClearBlockedIPs sparing the keys whose block has time left
ClearBlockedIPs_ExpiredOnly ==
    /\ blockedIPs' = {ip \in blockedIPs :
                         \E tm \in BagToSet(timers) : tm.ip = ip /\ tm.due > now}
    /\ suspiciousIPs' = {}
    /\ ret' = [op |-> "clearBlockedIPs", ip |-> "none", val |-> FALSE, path |-> "none", recs |-> -1]
    /\ UNCHANGED <<now, config, clients, timers, cleanupDue>>

\* ClearBlockedIPs that also cancels the pending unblock timers
ClearBlockedIPs_CancelsTimers ==
    /\ blockedIPs' = {}
    /\ suspiciousIPs' = {}
    /\ timers' = EmptyBag
    /\ ret' = [op |-> "clearBlockedIPs", ip |-> "none", val |-> FALSE, path |-> "none", recs |-> -1]
    /\ UNCHANGED <<now, config, clients, cleanupDue>>

\* ClearBlockedIPs that also forgets the records
ClearBlockedIPs_ResetsRecords ==
    /\ blockedIPs' = {}
    /\ suspiciousIPs' = {}
    /\ clients' = <<>>
    /\ ret' = [op |-> "clearBlockedIPs", ip |-> "none", val |-> FALSE, path |-> "none", recs |-> -1]
    /\ UNCHANGED <<now, config, timers, cleanupDue>>

\* clearBlockedIPs()
ClearBlockedIPs ==
    /\ blockedIPs' = {}
    /\ suspiciousIPs' = {}
    /\ ret' = [op |-> "clearBlockedIPs", ip |-> "none", val |-> FALSE, path |-> "none", recs |-> -1]
    /\ UNCHANGED <<now, config, clients, timers, cleanupDue>>

\* UpdateConfig that also lifts the blocks set under the old configuration
UpdateConfig_Unblocks(newConfig) ==
    /\ config' = [f \in DOMAIN config |->
                     IF f \in DOMAIN newConfig THEN newConfig[f] ELSE config[f]]
    /\ blockedIPs' = {}
    /\ ret' = [op |-> "updateConfig", ip |-> "none", val |-> newConfig, path |-> "none", recs |-> -1]
    /\ UNCHANGED <<now, clients, suspiciousIPs, timers, cleanupDue>>

\* updateConfig(newConfig): the fields given replace the stored ones (the call
\* returns nothing: ret keeps its argument)
UpdateConfig(newConfig) ==
    /\ config' = [f \in DOMAIN config |->
                     IF f \in DOMAIN newConfig THEN newConfig[f] ELSE config[f]]
    /\ ret' = [op |-> "updateConfig", ip |-> "none", val |-> newConfig, path |-> "none", recs |-> -1]
    /\ UNCHANGED <<now, clients, blockedIPs, suspiciousIPs, timers, cleanupDue>>

(***************************************************************************)
(* The read calls: each returns its value and touches nothing.             *)
(***************************************************************************)
IsBlockedCall(ip) ==
    /\ ret' = [op |-> "isBlocked", ip |-> ip, val |-> IsBlocked(ip),
               path |-> "read", recs |-> RecordLen(ip)]
    /\ UNCHANGED progVars

\* GetRemainingRequestsCall storing the filtered timestamps back in the record
GetRemainingRequestsCall_Prunes(ip) ==
    /\ ret' = [op |-> "getRemainingRequests", ip |-> ip, val |-> GetRemainingRequests(ip),
               path |-> "read", recs |-> RecordLen(ip)]
    /\ clients' = IF ip \in DOMAIN clients
                  THEN [clients EXCEPT ![ip].requests = InWindow(@, now, config.windowMs)]
                  ELSE clients
    /\ UNCHANGED <<now, config, blockedIPs, suspiciousIPs, timers, cleanupDue>>

GetRemainingRequestsCall(ip) ==
    /\ ret' = [op |-> "getRemainingRequests", ip |-> ip, val |-> GetRemainingRequests(ip),
               path |-> "read", recs |-> RecordLen(ip)]
    /\ UNCHANGED progVars

GetTimeUntilResetCall(ip) ==
    /\ ret' = [op |-> "getTimeUntilReset", ip |-> ip, val |-> GetTimeUntilReset(ip),
               path |-> "read", recs |-> RecordLen(ip)]
    /\ UNCHANGED progVars

GetStatsCall ==
    /\ ret' = [op |-> "getStats", ip |-> "none", val |-> GetStats, path |-> "read", recs |-> -1]
    /\ UNCHANGED progVars

(***************************************************************************)
(* Time.                                                                   *)
(***************************************************************************)
\* a callback runs at most MaxLateTicks ticks after it is due
Punctual ==
    /\ \A tm \in BagToSet(timers) : tm.due + MaxLateTicks * TickMs > now
    /\ cleanupDue + MaxLateTicks * TickMs > now

\* Date.now() moves on
Tick ==
    /\ now + TickMs <= MaxTime
    /\ Punctual
    /\ now' = now + TickMs
    /\ UNCHANGED <<config, clients, blockedIPs, suspiciousIPs, timers, cleanupDue, ret>>

(***************************************************************************)
(* History variables.  They record what the calls for one key, Watched,    *)
(* did and returned; no action of the program reads them.  The keys are    *)
(* interchangeable in every action, so what holds of Watched holds of each *)
(* key.                                                                    *)
(***************************************************************************)
Watched == "k1"

Min(a, b) == IF a <= b THEN a ELSE b

\* a key with no record and no active block
Fresh(ip) == ip \notin DOMAIN clients /\ ip \notin blockedIPs

\* run: when the key last was fresh at a call, and the calls made since (that one included)
RunAfter ==
    IF Fresh(Watched)
    THEN [start |-> now, n |-> 1]
    ELSE [run EXCEPT !.n = Min(run.n + 1, MaxRequestsBound + 2)]

\* admitted: the times of the calls that returned true, those a full window
\* before the newest one dropped
AdmittedAfter ==
    IF PathOf(Watched) = "admit"
    THEN Append(SelectSeq(admitted, LAMBDA a : a > now - config.windowMs), now)
    ELSE admitted

\* lastBlock: the call that last blocked the key (at: its time, dur: the
\* blockDurationMs then in force, cleared: clearBlockedIPs was called since,
\* called: a call was made for the key since), and rel: where the key's latest
\* call stood to the block before it: no block before it ("none"), the first
\* call since that block and made before its duration had elapsed ("early"), the
\* first call since and made once the duration had elapsed ("due"), a later
\* call ("more")
RelOfCall ==
    IF lastBlock.at < 0 THEN "none"
    ELSE IF lastBlock.called THEN "more"
    ELSE IF now >= lastBlock.at + lastBlock.dur THEN "due"
    ELSE "early"

LastBlockAfter ==
    IF PathOf(Watched) = "limit"
    THEN [at |-> now, dur |-> config.blockDurationMs, cleared |-> FALSE,
          called |-> FALSE, rel |-> RelOfCall]
    ELSE [lastBlock EXCEPT !.called = (lastBlock.at >= 0), !.rel = RelOfCall]

\* probe: the values isBlocked returned for the key since its last checkRateLimit
\* call (seen), and since then or the last unblock or clearBlockedIPs (quiet)
ProbeAfter ==
    [seen |-> probe.seen \cup {IsBlocked(Watched)},
     quiet |-> probe.quiet \cup {IsBlocked(Watched)}]

(***************************************************************************)
(* The steps every specification shares: the callbacks, the clock and      *)
(* clearBlockedIPs, which is called at most MaxClears times.               *)
(***************************************************************************)
UnblockStep == \E tm \in BagToSet(timers) :
    /\ UnblockTimer(tm)
    /\ probe' = IF tm.ip = Watched THEN [probe EXCEPT !.quiet = {}] ELSE probe
    /\ UNCHANGED <<run, admitted, lastBlock, trace, clears, reset, app, fp, epVars, atClear>>

CleanupStep == Cleanup /\ UNCHANGED <<run, admitted, lastBlock, probe, trace, clears, reset, app, fp, epVars, atClear>>

ClearStep ==
    /\ clears < MaxClears
    /\ clears' = clears + 1
    /\ ClearBlockedIPs
    /\ lastBlock' = [lastBlock EXCEPT !.cleared = (lastBlock.at >= 0)]
    /\ probe' = [probe EXCEPT !.quiet = {}]
    /\ UNCHANGED <<run, admitted, trace, reset, app, fp, epVars, atClear>>

TickStep == Tick /\ UNCHANGED <<run, admitted, lastBlock, probe, trace, clears, reset, app, fp, epVars, atClear>>

Background ==
    \/ UnblockStep
    \/ CleanupStep
    \/ ClearStep
    \/ TickStep

(***************************************************************************)
(* SpecRun: checkRateLimit calls, the calls since the key was fresh kept.  *)
(***************************************************************************)
CheckRun == \E ip \in Keys :
    /\ CheckRateLimit(ip)
    /\ run' = IF ip = Watched THEN RunAfter ELSE run
    /\ UNCHANGED <<admitted, lastBlock, probe, trace, clears, reset, app, fp, epVars, atClear>>

NextRun ==
    \/ CheckRun
    \/ Background

SpecRun == Init /\ [][NextRun]_vars

(***************************************************************************)
(* SpecAdmit: checkRateLimit and getRemainingRequests calls, the times of  *)
(* the admitted calls kept.                                                *)
(***************************************************************************)
CheckAdmit == \E ip \in Keys :
    /\ CheckRateLimit(ip)
    /\ admitted' = IF ip = Watched THEN AdmittedAfter ELSE admitted
    /\ UNCHANGED <<run, lastBlock, probe, trace, clears, reset, app, fp, epVars, atClear>>

RemainingAdmit ==
    /\ GetRemainingRequestsCall(Watched)
    /\ UNCHANGED <<run, admitted, lastBlock, probe, trace, clears, reset, app, fp, epVars, atClear>>

NextAdmit ==
    \/ CheckAdmit
    \/ RemainingAdmit
    \/ Background

SpecAdmit == Init /\ [][NextAdmit]_vars

(***************************************************************************)
(* SpecBlock: checkRateLimit calls, the last block of the key kept.        *)
(***************************************************************************)
CheckBlock == \E ip \in Keys :
    /\ CheckRateLimit(ip)
    /\ lastBlock' = IF ip = Watched THEN LastBlockAfter ELSE lastBlock
    /\ UNCHANGED <<run, admitted, probe, trace, clears, reset, app, fp, epVars, atClear>>

NextBlock ==
    \/ CheckBlock
    \/ Background

SpecBlock == Init /\ [][NextBlock]_vars

(***************************************************************************)
(* SpecReads: checkRateLimit calls and the four read calls, the values     *)
(* isBlocked returned kept.  The limiter is constructed with a block       *)
(* longer than two windows, so that the sweep meets blocked keys.          *)
(***************************************************************************)
ReadConfigs == {c \in Configs : c.blockDurationMs > 2 * c.windowMs}

InitReads == InitLimiter(ReadConfigs)

CheckReads == \E ip \in Keys :
    /\ CheckRateLimit(ip)
    /\ probe' = IF ip = Watched THEN NoProbe ELSE probe
    /\ UNCHANGED <<run, admitted, lastBlock, trace, clears, reset, app, fp, epVars, atClear>>

IsBlockedReads ==
    /\ IsBlockedCall(Watched)
    /\ probe' = ProbeAfter
    /\ UNCHANGED <<run, admitted, lastBlock, trace, clears, reset, app, fp, epVars, atClear>>

RemainingReads ==
    /\ GetRemainingRequestsCall(Watched)
    /\ UNCHANGED <<run, admitted, lastBlock, probe, trace, clears, reset, app, fp, epVars, atClear>>

TimeUntilResetReads ==
    /\ GetTimeUntilResetCall(Watched)
    /\ UNCHANGED <<run, admitted, lastBlock, probe, trace, clears, reset, app, fp, epVars, atClear>>

StatsReads ==
    /\ GetStatsCall
    /\ UNCHANGED <<run, admitted, lastBlock, probe, trace, clears, reset, app, fp, epVars, atClear>>

NextReads ==
    \/ CheckReads
    \/ IsBlockedReads
    \/ RemainingReads
    \/ TimeUntilResetReads
    \/ StatsReads
    \/ Background

SpecReads == InitReads /\ [][NextReads]_vars

(***************************************************************************)
(* SpecScenario: the worked example of the specification.  A limiter with  *)
(* {maxRequests: 3, windowMs: 1000, blockDurationMs: 5000}; the clock      *)
(* moves through the instants of the example; every checkRateLimit call    *)
(* for the key is kept, with what it returned and left behind.             *)
(***************************************************************************)
ScenarioConfig == [maxRequests |-> 3, windowMs |-> 1000, blockDurationMs |-> 5000]

ScenarioInstants == {0, 100, 200, 300, 4999, 5001, 5300, 5301, CleanupIntervalMs}

InitScenario == InitLimiter({ScenarioConfig})

\* trace: the call just made, appended
TraceAfter ==
    Append(trace, [t |-> now, val |-> ret'.val, path |-> ret'.path,
                   blocked |-> IsBlocked(Watched)', recs |-> RecordLen(Watched)'])

CheckScenario ==
    /\ Len(trace) < MaxTrace
    /\ CheckRateLimit(Watched)
    /\ trace' = TraceAfter
    /\ UNCHANGED <<run, admitted, lastBlock, probe, clears, reset, app, fp, epVars, atClear>>

\* Date.now() reaches the next instant of the example
ScenarioTick ==
    /\ Punctual
    /\ now' \in ScenarioInstants
    /\ now' > now
    /\ \A t \in ScenarioInstants : t > now => now' <= t
    /\ UNCHANGED <<config, clients, blockedIPs, suspiciousIPs, timers, cleanupDue, ret>>
    /\ UNCHANGED <<run, admitted, lastBlock, probe, trace, clears, reset, app, fp, epVars, atClear>>

NextScenario ==
    \/ CheckScenario
    \/ UnblockStep
    \/ CleanupStep
    \/ ScenarioTick

SpecScenario == InitScenario /\ [][NextScenario]_vars

(***************************************************************************)
(* The claims.                                                             *)
(***************************************************************************)
\* the last call was checkRateLimit for the watched key
CheckedWatched == ret.op = "checkRateLimit" /\ ret.ip = Watched

\* C1: a key that starts with no record and no active block has its first
\* maxRequests checkRateLimit calls admitted and the next one denied, when the
\* calls all lie within a span shorter than windowMs.
C1_AdmitsUpToLimitThenDenies ==
    (/\ CheckedWatched
     /\ run.n <= config.maxRequests + 1
     /\ now - run.start < config.windowMs)
    => (ret.val = (run.n <= config.maxRequests))

\* C1's case: the call after the quota, later than the first but within its window
C1_Witness ==
    /\ CheckedWatched
    /\ config.maxRequests = MaxRequestsBound
    /\ run.n = config.maxRequests + 1
    /\ run.start < now
    /\ now - run.start < config.windowMs
    /\ ret.val = FALSE

\* how many admitted calls have their time in (t - windowMs, t]
AdmittedIn(t) ==
    Cardinality({i \in DOMAIN admitted :
                    t - config.windowMs < admitted[i] /\ admitted[i] <= t})

\* C2: with the configuration unchanged, no window (t - windowMs, t] holds
\* more than maxRequests admitted calls of a key, whatever calls, timer
\* firings, sweeps and clearBlockedIPs calls were interleaved.
C2_AtMostMaxRequestsPerWindow ==
    \A i \in DOMAIN admitted : AdmittedIn(admitted[i]) <= config.maxRequests

\* C2's case: a full window after an earlier one was used, swept and cleared
C2_Witness ==
    /\ config.maxRequests = MaxRequestsBound
    /\ Len(admitted) = config.maxRequests
    /\ admitted[1] < admitted[Len(admitted)]
    /\ admitted[1] >= CleanupIntervalMs
    /\ cleanupDue > CleanupIntervalMs
    /\ clears > 0

\* the calls made so far are the first calls of the sequence made at `times`
Follows(times) ==
    /\ Len(trace) <= Len(times)
    /\ \A i \in DOMAIN trace : trace[i].t = times[i]

\* the calls made so far returned what `vals` lists
Returned(vals) == \A i \in DOMAIN trace : i \in DOMAIN vals => trace[i].val = vals[i]

\* C3 as stated: calls at 0, 100, 200 admitted; the call at 300 denied, the key
\* left blocked; the call at 4999 denied; the call at 5001 admitted, leaving
\* one timestamp in the record.
C3_AsStated ==
    Follows(<<0, 100, 200, 300, 4999, 5001>>)
    => /\ Returned(<<TRUE, TRUE, TRUE, FALSE, FALSE, TRUE>>)
       /\ Len(trace) >= 4 => trace[4].blocked
       /\ Len(trace) >= 6 => trace[6].recs = 1

\* C3, amended: calls at 0, 100, 200 admitted; the call at 300 denied, the key
\* left blocked; the calls at 4999 and at 5001 denied, the block lasting until
\* 5300; a call at 5301 made once the unblock timer has fired admitted,
\* leaving one timestamp in the record.
C3_BlockLastsFromTheDenial ==
    Follows(<<0, 100, 200, 300, 4999, 5001, 5301>>)
    => /\ Returned(<<TRUE, TRUE, TRUE, FALSE, FALSE, FALSE>>)
       /\ Len(trace) >= 4 => trace[4].blocked
       /\ (Len(trace) >= 7 /\ trace[7].path # "blocked")
              => trace[7].val = TRUE /\ trace[7].recs = 1

\* C3's case: the seven calls made, the last one admitted
C3_Witness ==
    /\ Follows(<<0, 100, 200, 300, 4999, 5001, 5301>>)
    /\ Len(trace) = 7
    /\ trace[6].path = "blocked"
    /\ trace[7].val = TRUE

\* C4: after a call blocks a key at time t, every checkRateLimit call for the
\* key before t + blockDurationMs is denied, unless clearBlockedIPs was
\* called since; whatever came before t.
C4_DeniedForTheBlockDuration ==
    (/\ CheckedWatched
     /\ lastBlock.at >= 0
     /\ ~lastBlock.cleared
     /\ now < lastBlock.at + lastBlock.dur)
    => ret.val = FALSE

\* the last call was the first one for the key since it was blocked, made once
\* the block duration had elapsed and the key had left the blocked set
FirstCallAfterBlock ==
    /\ CheckedWatched
    /\ lastBlock.rel = "due"
    /\ ret.path # "blocked"

\* C5 as stated: for every configuration, the first call for a key after its
\* block duration has elapsed (no call made for it during the block, the key
\* unblocked) is admitted.
C5_AsStated == FirstCallAfterBlock => ret.val = TRUE

\* C5, amended: the same, for the configurations with
\* blockDurationMs >= windowMs.
C5_AdmittedAfterBlockNoShorterThanWindow ==
    (FirstCallAfterBlock /\ config.blockDurationMs >= config.windowMs) => ret.val = TRUE

\* C5's case: the timer (no clearBlockedIPs call) ended the block, the next call admitted
C5_Witness ==
    /\ FirstCallAfterBlock
    /\ config.blockDurationMs >= config.windowMs
    /\ clears = 0
    /\ ret.val = TRUE

\* C6: a checkRateLimit call for a key in the blocked set returns false,
\* whatever the key's record holds.
C6_BlockedKeyIsDenied ==
    [][\A ip \in Keys : (CheckRateLimit(ip) /\ ip \in blockedIPs) => ret'.val = FALSE]_vars

\* C6's case: a call for a blocked key whose record the sweep had deleted
C6_Witness ==
    /\ ret.op = "checkRateLimit"
    /\ ret.path = "blocked"
    /\ ret.recs = -1
    /\ ret.val = FALSE

\* how many recorded timestamps of the key are less than windowMs old
RecordedInWindow(ip) ==
    IF ip \in DOMAIN clients
    THEN Cardinality({i \in DOMAIN clients[ip].requests :
                         now - clients[ip].requests[i] < config.windowMs})
    ELSE 0

\* C7: getRemainingRequests returns maxRequests less the calls admitted within
\* the last window (maxRequests - k after k admitted calls), which is
\* max(0, maxRequests - the recorded timestamps less than windowMs old), and
\* maxRequests for a key with no record.
C7_RemainingIsQuotaLeft ==
    [][GetRemainingRequestsCall(Watched)
        => /\ ret'.val = config.maxRequests - AdmittedIn(now)
           /\ ret'.val = Max(0, config.maxRequests - RecordedInWindow(Watched))
           /\ Watched \notin DOMAIN clients => ret'.val = config.maxRequests]_vars

\* C7's case: one call admitted within the window, an older timestamp still recorded
C7_Witness ==
    /\ ret.op = "getRemainingRequests"
    /\ config.maxRequests = MaxRequestsBound
    /\ ret.recs = 2
    /\ AdmittedIn(now) = 1
    /\ ret.val = config.maxRequests - 1

\* what the limiter holds about a key
KeyView(ip) ==
    <<ip \in DOMAIN clients, ClientOf(ip), IsBlocked(ip), GetRemainingRequests(ip)>>

\* C8: a checkRateLimit call under one key leaves every other key's record,
\* blocked-set membership and getRemainingRequests value unchanged.
C8_KeysDoNotInteract ==
    [][\A a \in Keys : CheckRateLimit(a)
        => \A b \in Keys \ {a} : KeyView(b)' = KeyView(b)]_vars

\* C8's case: the other key exhausted its quota and got blocked, this one has
\* a record, quota left and no block
C8_Witness ==
    /\ ret.op = "checkRateLimit"
    /\ ret.ip # Watched
    /\ ret.path = "limit"
    /\ RecordLen(Watched) = 1
    /\ IsBlocked(ret.ip)
    /\ ~IsBlocked(Watched)
    /\ GetRemainingRequests(Watched) = 1

\* a step is one of the four read calls
ReadCall ==
    \/ \E ip \in Keys : IsBlockedCall(ip)
    \/ \E ip \in Keys : GetRemainingRequestsCall(ip)
    \/ \E ip \in Keys : GetTimeUntilResetCall(ip)
    \/ GetStatsCall

\* C9: isBlocked, getRemainingRequests, getTimeUntilReset and getStats create
\* no record, prune and append no timestamp, and leave the blocked set, the
\* configuration and the timers as they were.
C9_ReadsChangeNothing ==
    [][ReadCall
        => /\ DOMAIN clients' = DOMAIN clients
           /\ clients' = clients
           /\ blockedIPs' = blockedIPs
           /\ suspiciousIPs' = suspiciousIPs
           /\ config' = config
           /\ timers' = timers
           /\ cleanupDue' = cleanupDue]_vars

\* C9's case: getRemainingRequests counted no timestamp as recent and left the
\* stale ones in the record
C9_Witness ==
    /\ ret.op = "getRemainingRequests"
    /\ ret.val = config.maxRequests
    /\ ret.recs >= 1
    /\ RecordLen(ret.ip) = ret.recs
    /\ RecordedInWindow(ret.ip) = 0

\* C10 as stated: between two checkRateLimit calls for a key, every isBlocked
\* call for it returns the same value.
C10_AsStated == Cardinality(probe.seen) <= 1

\* C10, amended: between two checkRateLimit calls for a key, the isBlocked
\* calls for it made with no unblock timer of the key firing and no
\* clearBlockedIPs call between them return the same value.
C10_SameValueUntilUnblocked == Cardinality(probe.quiet) <= 1

\* C10's case: isBlocked returned true, the timer fired, isBlocked returned false
C10_Witness ==
    /\ probe.seen = {TRUE, FALSE}
    /\ probe.quiet = {FALSE}
    /\ clears = 0
    /\ ret.op = "isBlocked"

(***************************************************************************)
(* SpecReset: checkRateLimit calls and getTimeUntilReset reads, the values *)
(* read for the key since its last checkRateLimit call kept.               *)
(***************************************************************************)
\* reset: the first and the latest value read since the key's last call
ResetAfter ==
    [read |-> TRUE,
     first |-> IF reset.read THEN reset.first ELSE GetTimeUntilReset(Watched),
     val |-> GetTimeUntilReset(Watched)]

CheckReset == \E ip \in Keys :
    /\ CheckRateLimit(ip)
    /\ reset' = IF ip = Watched THEN NoReset ELSE reset
    /\ UNCHANGED <<run, admitted, lastBlock, probe, trace, clears, app, fp, epVars, atClear>>

TimeUntilResetReset ==
    /\ GetTimeUntilResetCall(Watched)
    /\ reset' = ResetAfter
    /\ UNCHANGED <<run, admitted, lastBlock, probe, trace, clears, app, fp, epVars, atClear>>

NextReset ==
    \/ CheckReset
    \/ TimeUntilResetReset
    \/ Background

SpecReset == Init /\ [][NextReset]_vars

\* the key has no recorded timestamps
NoTimestamps(ip) == ip \notin DOMAIN clients \/ Len(clients[ip].requests) = 0

\* C11: with the configuration unchanged, the value getTimeUntilReset returns
\* for a key never rises between two checkRateLimit calls for that key: at
\* every instant since a read it is at most what that read returned, whatever
\* sweeps and unblock timers ran since; it is never negative, and it is 0 for
\* a key with no recorded timestamps.
C11_TimeUntilResetNeverRises ==
    /\ reset.read => GetTimeUntilReset(Watched) <= reset.val /\ reset.val <= reset.first
    /\ GetTimeUntilReset(Watched) >= 0
    /\ NoTimestamps(Watched) => GetTimeUntilReset(Watched) = 0

\* a positive value was read, the sweep then deleted the record, and a later
\* read returned 0
C11_Witness ==
    /\ ret.op = "getTimeUntilReset"
    /\ reset.read
    /\ reset.first > 0
    /\ reset.val = 0
    /\ ret.val = 0
    /\ Watched \notin DOMAIN clients
    /\ cleanupDue > CleanupIntervalMs

\* the call about to be made for the key prunes the oldest timestamp of its record
PrunesOldest(ip) ==
    /\ ip \notin blockedIPs
    /\ ~NoTimestamps(ip)
    /\ now - MinOf(clients[ip].requests) >= config.windowMs

\* C12 as stated: whenever a checkRateLimit call prunes the oldest timestamp of
\* a key's record, getTimeUntilReset read right after the call, at the same
\* instant, returns exactly windowMs.
C12_AsStated ==
    [][\A ip \in Keys : (CheckRateLimit(ip) /\ PrunesOldest(ip))
        => GetTimeUntilReset(ip)' = config.windowMs]_vars

\* C12, corrected: such a call is admitted, and getTimeUntilReset read right
\* after it returns windowMs less the age of the oldest timestamp the call left
\* in the record; that is windowMs exactly when the oldest timestamp left is the
\* call's own.
C12_ResetsToOldestKept ==
    [][\A ip \in Keys : (CheckRateLimit(ip) /\ PrunesOldest(ip))
        => /\ ret'.val = TRUE
           /\ GetTimeUntilReset(ip)' = config.windowMs - (now - MinOf(clients'[ip].requests))
           /\ GetTimeUntilReset(ip)' = config.windowMs <=> MinOf(clients'[ip].requests) = now]_vars

\* a call pruned the oldest timestamp and left an earlier one than its own
C12_Witness ==
    /\ CheckedWatched
    /\ ret.path = "admit"
    /\ Watched \in DOMAIN clients
    /\ Len(clients[Watched].requests) >= 2
    /\ ret.recs >= Len(clients[Watched].requests)
    /\ clients[Watched].requests[1] < now
    /\ now - clients[Watched].requests[1] < config.windowMs

(***************************************************************************)
(* SpecExpire: checkRateLimit calls, the callbacks and the clock, with the *)
(* event loop's scheduling: time passes, and a callback that is due runs.  *)
(* The calls stop early enough for every block they set to end within the  *)
(* modelled time.                                                          *)
(***************************************************************************)
CheckExpire == \E ip \in Keys :
    /\ now + config.blockDurationMs <= MaxTime
    /\ CheckRateLimit(ip)
    /\ UNCHANGED <<run, admitted, lastBlock, probe, trace, clears, reset, app, fp, epVars, atClear>>

NextExpire ==
    \/ CheckExpire
    \/ Background

SpecExpire ==
    /\ Init
    /\ [][NextExpire]_vars
    /\ WF_vars(TickStep)
    /\ WF_vars(UnblockStep)
    /\ WF_vars(CleanupStep)

\* C13: a blocked key leaves the blocked set by itself: from every state in
\* which a key is blocked, a state in which it is not blocked is reached, on
\* every run in which due timers fire, whether or not checkRateLimit or
\* clearBlockedIPs is called again.
C13_BlockedKeyIsEventuallyUnblocked ==
    \A ip \in Keys : (ip \in blockedIPs) ~> (ip \notin blockedIPs)

\* the key was blocked and its unblock timer, not clearBlockedIPs, unblocked it
C13_Witness ==
    /\ Watched \in suspiciousIPs
    /\ Watched \notin blockedIPs
    /\ clears = 0
    /\ \A tm \in BagToSet(timers) : tm.ip # Watched

(***************************************************************************)
(* The key of a call.  Every public call but getStats and the two          *)
(* administrative ones starts with getClientIP(), which draws on a canvas: *)
(* canvas.getContext('2d') returns a context or null, and the assignment   *)
(* ctx.textBaseline = 'top' on null throws a TypeError, which no method of *)
(* the limiter catches.  The key fingerprinting yields for the page is     *)
(* drawn from Keys.                                                        *)
(***************************************************************************)
Contexts == {"2d", "null"}

\* GenerateFingerprint yielding a key from a page without a 2D context
GenerateFingerprint_Degenerate(ctx, key) == key

\* generateFingerprint(): the key, or the TypeError thrown on a null context
GenerateFingerprint(ctx, key) == IF ctx = "null" THEN "TypeError" ELSE key

\* a call that ends in the error thrown by getClientIP(), before any other statement
Throws(op) ==
    /\ ret' = [op |-> op, ip |-> "none", val |-> FALSE, path |-> "error", recs |-> -1]
    /\ UNCHANGED progVars

\* checkRateLimit() from its first statement
CheckRateLimitFrom(ctx, key) ==
    LET ip == GenerateFingerprint(ctx, key)
    IN  IF ip = "TypeError" THEN Throws("checkRateLimit") ELSE CheckRateLimit(ip)

\* isBlocked() from its first statement
IsBlockedFrom(ctx, key) ==
    LET ip == GenerateFingerprint(ctx, key)
    IN  IF ip = "TypeError" THEN Throws("isBlocked") ELSE IsBlockedCall(ip)

\* getRemainingRequests() from its first statement
GetRemainingRequestsFrom(ctx, key) ==
    LET ip == GenerateFingerprint(ctx, key)
    IN  IF ip = "TypeError" THEN Throws("getRemainingRequests")
        ELSE GetRemainingRequestsCall(ip)

\* getTimeUntilReset() from its first statement
GetTimeUntilResetFrom(ctx, key) ==
    LET ip == GenerateFingerprint(ctx, key)
    IN  IF ip = "TypeError" THEN Throws("getTimeUntilReset")
        ELSE GetTimeUntilResetCall(ip)

(***************************************************************************)
(* SpecCanvas: the four calls that take a key, on pages with and without a *)
(* 2D context.                                                             *)
(***************************************************************************)
CheckCanvas == \E ctx \in Contexts, key \in Keys :
    /\ CheckRateLimitFrom(ctx, key)
    /\ UNCHANGED <<run, admitted, lastBlock, probe, trace, clears, reset, app, fp, epVars, atClear>>

IsBlockedCanvas == \E ctx \in Contexts :
    /\ IsBlockedFrom(ctx, Watched)
    /\ UNCHANGED <<run, admitted, lastBlock, probe, trace, clears, reset, app, fp, epVars, atClear>>

RemainingCanvas == \E ctx \in Contexts :
    /\ GetRemainingRequestsFrom(ctx, Watched)
    /\ UNCHANGED <<run, admitted, lastBlock, probe, trace, clears, reset, app, fp, epVars, atClear>>

TimeUntilResetCanvas == \E ctx \in Contexts :
    /\ GetTimeUntilResetFrom(ctx, Watched)
    /\ UNCHANGED <<run, admitted, lastBlock, probe, trace, clears, reset, app, fp, epVars, atClear>>

NextCanvas ==
    \/ CheckCanvas
    \/ IsBlockedCanvas
    \/ RemainingCanvas
    \/ TimeUntilResetCanvas
    \/ Background

SpecCanvas == InitReads /\ [][NextCanvas]_vars

\* C14: without a 2D context generateFingerprint yields no key but an error,
\* and checkRateLimit, isBlocked, getRemainingRequests and getTimeUntilReset
\* called on such a page each end in that error and leave the records, the
\* blocked set, the timers and the configuration as they were.
C14_NoContextNoKey ==
    [][\A key \in Keys :
          /\ GenerateFingerprint("null", key) \notin Keys
          /\ (\/ CheckRateLimitFrom("null", key)
              \/ IsBlockedFrom("null", key)
              \/ GetRemainingRequestsFrom("null", key)
              \/ GetTimeUntilResetFrom("null", key))
             => /\ ret'.path = "error"
                /\ UNCHANGED <<clients, blockedIPs, suspiciousIPs, timers, config>>]_vars

\* checkRateLimit ended in the error on a limiter holding records and a blocked key
C14_Witness ==
    /\ ret.op = "checkRateLimit"
    /\ ret.path = "error"
    /\ Watched \in blockedIPs
    /\ Watched \in DOMAIN clients
    /\ timers # EmptyBag

(***************************************************************************)
(* QuadKernApp (src/unnamed/part_005): the constructor stores the          *)
(* configuration and calls init(), which runs to its first await inside    *)
(* the constructor and, when the performance module is enabled, resumes    *)
(* after performance.init() has settled.  The fields: the three modules    *)
(* (TRUE once constructed), isInitialized, extremeMode (TRUE once          *)
(* enableExtremePerformanceMode() has run), checks (the checkRateLimit     *)
(* calls init made), checkedFirst (no module was constructed before the    *)
(* check), outcome (how init ended), logged (the catch block logged an     *)
(* error) and escaped (an error left init).  The module constructors and   *)
(* the setup calls after them are taken to succeed.                        *)
(***************************************************************************)
AppConfigs ==
    [enableSecurity : BOOLEAN, enablePerformance : BOOLEAN,
     enableNavigation : BOOLEAN, enableEffects : BOOLEAN]

\* init() after the modules' block: navigation, effects, isInitialized = true
AppRest(a) ==
    [a EXCEPT !.navigation = a.config.enableNavigation,
              !.effects = a.config.enableEffects,
              !.isInitialized = TRUE,
              !.phase = "done",
              !.outcome = "admitted"]

\* init() past the throttle check: up to the await, or to the end
AppAdmitted(a) ==
    IF a.config.enablePerformance
    THEN [a EXCEPT !.performance = TRUE, !.phase = "awaiting"]
    ELSE AppRest(a)

\* init()'s catch block: logger.error, nothing else
AppCaught(a) ==
    [a EXCEPT !.phase = "done", !.outcome = "error", !.logged = TRUE]

\* the denied branch without its return: init goes on to the modules
AppDenied_Continues(a) ==
    AppAdmitted([a EXCEPT !.extremeMode = TRUE])

\* init()'s denied branch: enableExtremePerformanceMode() and return
AppDenied(a) ==
    [a EXCEPT !.phase = "done", !.outcome = "denied", !.extremeMode = TRUE]

\* new QuadKernApp(cfg): the constructor and init() up to its first await
AppConstruct(cfg, ctx, key) ==
    /\ app.phase = "none"
    /\ LET a0 == [NoApp EXCEPT !.config = cfg]
           a1 == [a0 EXCEPT !.checks = 1,
                            !.checkedFirst = ~(a0.performance \/ a0.navigation \/ a0.effects)]
       IN  IF cfg.enableSecurity
           THEN /\ CheckRateLimitFrom(ctx, key)
                /\ app' = IF ret'.path = "error" THEN AppCaught(a1)
                           ELSE IF ret'.val = FALSE THEN AppDenied(a1)
                           ELSE AppAdmitted(a1)
           ELSE /\ app' = AppAdmitted(a0)
                /\ UNCHANGED <<progVars, ret>>

\* init() resumes after await this.performance.init()
AppResume ==
    /\ app.phase = "awaiting"
    /\ app' = AppRest(app)
    /\ UNCHANGED <<progVars, ret>>

(***************************************************************************)
(* SpecApp: one QuadKernApp on a page whose limiter is also called         *)
(* directly; the page's fingerprint is the watched key throughout.         *)
(***************************************************************************)
ConstructApp == \E cfg \in AppConfigs, ctx \in Contexts :
    /\ AppConstruct(cfg, ctx, Watched)
    /\ UNCHANGED <<run, admitted, lastBlock, probe, trace, clears, reset, fp, epVars, atClear>>

ResumeApp ==
    /\ AppResume
    /\ UNCHANGED <<run, admitted, lastBlock, probe, trace, clears, reset, fp, epVars, atClear>>

CheckApp ==
    /\ CheckRateLimit(Watched)
    /\ UNCHANGED <<run, admitted, lastBlock, probe, trace, clears, reset, app, fp, epVars, atClear>>

NextApp ==
    \/ ConstructApp
    \/ ResumeApp
    \/ CheckApp
    \/ Background

SpecApp == Init /\ [][NextApp]_vars

\* the state init leaves after an admitted check
AdmittedState ==
    /\ app.isInitialized
    /\ app.performance = app.config.enablePerformance
    /\ app.navigation = app.config.enableNavigation
    /\ app.effects = app.config.enableEffects

\* the state init leaves after a denied check
DeniedState ==
    /\ ~app.isInitialized
    /\ ~app.performance /\ ~app.navigation /\ ~app.effects
    /\ app.extremeMode

\* C15: an error raised by the throttle check during init never leaves init,
\* and init ends in the admitted state (the configured modules constructed,
\* isInitialized true) or in the denied state (no module constructed, extreme
\* performance mode applied).
C15_ErrorDegradesToAdmitOrDeny ==
    (app.phase = "done" /\ app.outcome = "error")
        => /\ ~app.escaped
           /\ AdmittedState \/ DeniedState

(***************************************************************************)
(* SpecConfig: checkRateLimit calls and updateConfig calls, the last block *)
(* of the key kept.  updateConfig is given no field, one field or all      *)
(* three, each with a value a limiter can be constructed with.  The calls  *)
(* are for the watched key.                                                *)
(***************************************************************************)
ConfigFields == {"maxRequests", "windowMs", "blockDurationMs"}

ConfigUpdates ==
    {[f \in fields |-> c[f]] :
        c \in Configs, fields \in {fs \in SUBSET ConfigFields : Cardinality(fs) # 2}}

CheckConfig ==
    /\ CheckRateLimit(Watched)
    /\ lastBlock' = LastBlockAfter
    /\ UNCHANGED <<run, admitted, probe, trace, clears, reset, app, fp, epVars, atClear>>

UpdateConfigStep == \E newConfig \in ConfigUpdates :
    /\ UpdateConfig(newConfig)
    /\ UNCHANGED <<run, admitted, lastBlock, probe, trace, clears, reset, app, fp, epVars, atClear>>

NextConfig ==
    \/ CheckConfig
    \/ UpdateConfigStep
    \/ Background

SpecConfig == Init /\ [][NextConfig]_vars

C17_ClearEmptiesBlockedSet ==
    [][clears' # clears
        => /\ blockedIPs' = {}
           /\ \A ip \in Keys : IsBlocked(ip)' = FALSE
           /\ clients' = clients]_vars

\* clearBlockedIPs was called while the key's block had time left, and the
\* key's record is still there
C17_Witness ==
    /\ ret.op = "clearBlockedIPs"
    /\ lastBlock.cleared
    /\ now < lastBlock.at + lastBlock.dur
    /\ Watched \notin blockedIPs
    /\ Watched \in DOMAIN clients
    /\ BagIn([ip |-> Watched, due |-> lastBlock.at + lastBlock.dur], timers)

\* how many timestamps of the key's record are inside the window now
PrunedLen(ip) == Len(InWindow(ClientOf(ip).requests, now, config.windowMs))

\* C18 as stated: a key that is not blocked becomes blocked at the
\* checkRateLimit call made when its pruned record holds maxRequests - 1
\* timestamps.
C18_AsStated ==
    [][\A ip \in Keys : (CheckRateLimit(ip) /\ ip \notin blockedIPs)
        => (ip \in blockedIPs' <=> PrunedLen(ip) = config.maxRequests - 1)]_vars

\* C18, corrected: with the configuration unchanged, a key that is not blocked
\* becomes blocked at the checkRateLimit call made when its pruned record
\* already holds maxRequests timestamps; the call made when it holds
\* maxRequests - 1 is admitted and leaves the key open.
C18_BlockedAtTheCallPastTheLimit ==
    [][\A ip \in Keys : (CheckRateLimit(ip) /\ ip \notin blockedIPs)
        => /\ ip \in blockedIPs' <=> PrunedLen(ip) = config.maxRequests
           /\ PrunedLen(ip) <= config.maxRequests
           /\ PrunedLen(ip) = config.maxRequests - 1
                => (ret'.val = TRUE /\ ip \notin blockedIPs')]_vars

\* the key was blocked by a call that found maxRequests timestamps in the window
C18_Witness ==
    /\ CheckedWatched
    /\ ret.path = "limit"
    /\ lastBlock.at = now
    /\ Watched \in blockedIPs
    /\ Len(clients[Watched].requests) = config.maxRequests

\* a is what is left of b after dropping some of its oldest entries
IsSuffix(a, b) == \E k \in 0..Len(b) : a = SubSeq(b, k + 1, Len(b))

\* C19: a checkRateLimit call appends exactly one timestamp, the current
\* time, to the key's record if it returns true, and appends nothing if it
\* returns false: what the record held before the new entry is what is left of
\* the old record after pruning.  A call for a key that is already blocked
\* returns false and changes no state: no record created, nothing pruned, no
\* timer scheduled.
C19_AppendsExactlyWhenAdmitted ==
    [][\A ip \in Keys : CheckRateLimit(ip)
        => LET before == ClientOf(ip).requests
               after == IF ip \in DOMAIN clients' THEN clients'[ip].requests ELSE <<>>
           IN  /\ ret'.val = TRUE
                    => /\ after # <<>>
                       /\ after[Len(after)] = now
                       /\ IsSuffix(SubSeq(after, 1, Len(after) - 1), before)
               /\ ret'.val = FALSE => IsSuffix(after, before)
               /\ ip \in blockedIPs
                    => /\ ret'.val = FALSE
                       /\ UNCHANGED <<clients, blockedIPs, suspiciousIPs, timers, config>>]_vars

\* a call for a blocked key whose record the sweep had deleted: denied, and
\* still no record
C19_Witness ==
    /\ CheckedWatched
    /\ ret.path = "blocked"
    /\ ret.val = FALSE
    /\ Watched \in blockedIPs
    /\ Watched \notin DOMAIN clients
    /\ run.n >= 3

\* C20: right after a checkRateLimit call that an existing block did not
\* reject, every timestamp ts in the key's record satisfies
\* now - ts < windowMs; a timestamp exactly windowMs old is gone.
C20_RecordInsideWindowAfterCall ==
    [][\A ip \in Keys : (CheckRateLimit(ip) /\ ip \notin blockedIPs)
        => /\ ip \in DOMAIN clients'
           /\ \A i \in DOMAIN clients'[ip].requests :
                now - clients'[ip].requests[i] < config.windowMs
           /\ \A i \in DOMAIN ClientOf(ip).requests :
                now - ClientOf(ip).requests[i] = config.windowMs
                    => \A j \in DOMAIN clients'[ip].requests :
                         clients'[ip].requests[j] # ClientOf(ip).requests[i]]_vars

\* the key's second call came exactly windowMs after its first: the first
\* timestamp was still recorded before the call and is gone after it
C20_Witness ==
    /\ CheckedWatched
    /\ ret.path = "admit"
    /\ run.n = 2
    /\ run.start = now - config.windowMs
    /\ ret.recs = 1
    /\ clients[Watched].requests = <<now>>

(***************************************************************************)
(* Claims C21 to C30.                                                      *)
(***************************************************************************)
\* a step of the cleanup callback: the only one that moves cleanupDue
SweepStep == cleanupDue' # cleanupDue

\* C21: right after a cleanup sweep at time now the map holds exactly the
\* records that had a timestamp newer than now - 2*windowMs before it, each
\* with only those timestamps, in their order; the records whose timestamps
\* were all at or before the cutoff are gone; the blocked set is unchanged.
C21_SweepKeepsTheRecentRecords ==
    [][SweepStep =>
        LET cutoff == now - 2 * config.windowMs
            recent(ip) == {i \in DOMAIN clients[ip].requests : clients[ip].requests[i] > cutoff}
        IN  /\ DOMAIN clients' = {ip \in DOMAIN clients : recent(ip) # {}}
            /\ \A ip \in DOMAIN clients' :
                 /\ clients'[ip].requests = SelectSeq(clients[ip].requests, LAMBDA ts : ts > cutoff)
                 /\ [clients'[ip] EXCEPT !.requests = <<>>] = [clients[ip] EXCEPT !.requests = <<>>]
            /\ blockedIPs' = blockedIPs]_vars

\* the sweep at 300000 has run: the watched key, blocked at or before the
\* cutoff, lost its record and is still blocked; the other key, with a
\* timestamp after the cutoff, kept its record
C21_Witness ==
    /\ now = CleanupIntervalMs
    /\ cleanupDue = 2 * CleanupIntervalMs
    /\ lastBlock.at >= 0
    /\ lastBlock.at <= now - 2 * config.windowMs
    /\ Watched \notin DOMAIN clients
    /\ Watched \in blockedIPs
    /\ "k2" \in DOMAIN clients
    /\ \E i \in DOMAIN clients["k2"].requests : clients["k2"].requests[i] < now

\* a step that puts a record in the map for a key that had none, one that takes a record out
Created(ip) == ip \notin DOMAIN clients /\ ip \in DOMAIN clients'

Removed(ip) == ip \in DOMAIN clients /\ ip \notin DOMAIN clients'

\* C22 as stated, in its weakest reading: a record is created only by a
\* checkRateLimit call for a key with no record, and a record leaves the map
\* only when it holds no timestamp or its newest timestamp left the window at
\* least one cleanup interval ago.
C22_AsStated ==
    [][\A ip \in Keys :
        /\ Created(ip) => CheckRateLimit(ip)
        /\ Removed(ip) =>
             \/ clients[ip].requests = <<>>
             \/ MaxOf(clients[ip].requests) + config.windowMs + CleanupIntervalMs <= now]_vars

\* C22, amended: a record is created only by a checkRateLimit call for a key
\* with no record and no block, and it then holds the time of the call; every
\* record holds at least one timestamp; a record leaves the map only in a
\* cleanup sweep, and only when all its timestamps are at or before
\* now - 2*windowMs.
C22_CreatedByCheckRemovedBySweep ==
    [][\A ip \in Keys :
        /\ Created(ip) => /\ CheckRateLimit(ip)
                          /\ ip \notin blockedIPs
                          /\ clients'[ip].requests = <<now>>
        /\ ip \in DOMAIN clients' => clients'[ip].requests # <<>>
        /\ Removed(ip) => /\ SweepStep
                          /\ clients[ip].requests # <<>>
                          /\ MaxOf(clients[ip].requests) <= now - 2 * config.windowMs]_vars

\* the sweep at 300000 took the record of the watched key, blocked before and
\* never cleared, one window after its last timestamp left the window and less
\* than a cleanup interval after; the other key's record was created by the
\* latest call
C22_Witness ==
    /\ now = CleanupIntervalMs
    /\ cleanupDue = 2 * CleanupIntervalMs
    /\ Watched \in suspiciousIPs
    /\ Watched \notin DOMAIN clients
    /\ ret.op = "checkRateLimit"
    /\ ret.ip = "k2"
    /\ ret.recs = -1
    /\ ret.path = "admit"
    /\ "k2" \in DOMAIN clients
    /\ clients["k2"].requests = <<now>>

(***************************************************************************)
(* SpecSweep: checkRateLimit calls, the callbacks and the clock, with the  *)
(* event loop's scheduling: time passes, and a callback that is due runs.  *)
(* The calls stop early enough for a sweep within the modelled time to     *)
(* find their timestamp at or before its cutoff.                           *)
(***************************************************************************)
\* the instants of the sweeps still to run that the clock reaches
SweepsAhead ==
    {t \in {n * CleanupIntervalMs : n \in 1..(MaxTime \div CleanupIntervalMs)} :
        /\ t >= cleanupDue
        /\ \E k \in 0..MaxTicks : k * TickMs >= t}

CheckSweep == \E ip \in Keys :
    /\ \E t \in SweepsAhead : now + 2 * config.windowMs <= t
    /\ CheckRateLimit(ip)
    /\ UNCHANGED <<run, admitted, lastBlock, probe, trace, clears, reset, app, fp, epVars, atClear>>

NextSweep ==
    \/ CheckSweep
    \/ Background

SpecSweep ==
    /\ Init
    /\ [][NextSweep]_vars
    /\ WF_vars(TickStep)
    /\ WF_vars(UnblockStep)
    /\ WF_vars(CleanupStep)

\* C23: while the cleanup interval keeps firing, the record of a key that is
\* not checked again leaves the map: from every state in which a key has a
\* record, a state in which it has none is reached once the calls have
\* stopped, so the map does not keep the records of keys seen once.
C23_IdleRecordIsEventuallyRemoved ==
    \A ip \in Keys : (ip \in DOMAIN clients) ~> (ip \notin DOMAIN clients)

\* the latest call was admitted and left a record; a sweep has run since and
\* the map is empty
C23_Witness ==
    /\ ret.op = "checkRateLimit"
    /\ ret.path = "admit"
    /\ ret.recs = -1
    /\ cleanupDue > CleanupIntervalMs
    /\ clients = <<>>

Half == 65536

\* the longest joined string, and the code units it is made of: the digit 0,
\* the separator | and the largest code unit
MaxFingerprintLen == 6

CharCodes == {48, 124, 65535}

RECURSIVE StringsUpTo(_)
StringsUpTo(n) ==
    IF n = 0 THEN {<<>>}
    ELSE LET shorter == StringsUpTo(n - 1)
         IN  shorter \cup {Append(s, c) : s \in shorter, c \in CharCodes}

Fingerprints == StringsUpTo(MaxFingerprintLen)

\* hash << 4
ShiftLeft5_ByFour(h) ==
    LET lo == h.lo * 16
        hi == h.hi * 16 + (lo \div Half)
    IN  [hi |-> hi % Half, lo |-> lo % Half]

\* hash << 5
ShiftLeft5(h) ==
    LET lo == h.lo * 32
        hi == h.hi * 32 + (lo \div Half)
    IN  [hi |-> hi % Half, lo |-> lo % Half]

\* a - b on 32 bits
Minus(a, b) ==
    LET lo == a.lo - b.lo
        borrow == IF lo < 0 THEN 1 ELSE 0
    IN  [hi |-> (a.hi - b.hi - borrow + Half) % Half, lo |-> (lo + Half) % Half]

\* a + char on 32 bits, char a code unit
Plus(a, char) ==
    LET lo == a.lo + char
    IN  [hi |-> (a.hi + (lo \div Half)) % Half, lo |-> lo % Half]

\* the sign bit
IsNegative(h) == h.hi >= Half \div 2

\* Math.abs(hash): the magnitude, up to 2^31, as two halves
MathAbs(h) == IF IsNegative(h) THEN Minus([hi |-> 0, lo |-> 0], h) ELSE h

\* the digits of toString(36)
Digits36 ==
    <<"0", "1", "2", "3", "4", "5", "6", "7", "8", "9", "a", "b", "c", "d", "e", "f", "g", "h",
      "i", "j", "k", "l", "m", "n", "o", "p", "q", "r", "s", "t", "u", "v", "w", "x", "y", "z">>

\* m divided by 36: the quotient as two halves, and the remainder
DivMod36(m) ==
    LET rest == (m.hi % 36) * Half + m.lo
    IN  [q |-> [hi |-> m.hi \div 36, lo |-> rest \div 36], r |-> rest % 36]

\* Number.prototype.toString(36) of a magnitude: its digits, the first one
\* not 0, or "0" alone
RECURSIVE DigitsOf(_)
DigitsOf(m) ==
    IF m.hi = 0 /\ m.lo = 0 THEN <<>>
    ELSE Append(DigitsOf(DivMod36(m).q), Digits36[DivMod36(m).r + 1])

ToString36(m) == IF m.hi = 0 /\ m.lo = 0 THEN <<"0">> ELSE DigitsOf(m)

(***************************************************************************)
(* SpecHash: generateFingerprint on a page whose joined string is drawn    *)
(* from Fingerprints: the loop, one character a step, and the return.      *)
(***************************************************************************)
InitHash ==
    /\ InitThrottle({ScenarioConfig})
    /\ fp \in {[NoFp EXCEPT !.fingerprint = s, !.pc = "loop"] : s \in Fingerprints}
    /\ InitEndpoints({DefaultEndpointConfig})

\* one turn of the for loop
HashChar ==
    /\ fp.pc = "loop"
    /\ fp.i < Len(fp.fingerprint)
    /\ LET char == fp.fingerprint[fp.i + 1]
       IN  fp' = [fp EXCEPT !.hash = Plus(Minus(ShiftLeft5(fp.hash), fp.hash), char),
                            !.i = fp.i + 1]

\* the loop is over: return Math.abs(hash).toString(36)
HashReturn ==
    /\ fp.pc = "loop"
    /\ fp.i >= Len(fp.fingerprint)
    /\ fp' = [fp EXCEPT !.key = ToString36(MathAbs(fp.hash)), !.pc = "done"]

HashCharStep ==
    /\ HashChar
    /\ UNCHANGED <<progVars, ret, histVars, clears, app, epVars, atClear>>

HashReturnStep ==
    /\ HashReturn
    /\ UNCHANGED <<progVars, ret, histVars, clears, app, epVars, atClear>>

NextHash ==
    \/ HashCharStep
    \/ HashReturnStep

SpecHash == InitHash /\ [][NextHash]_vars

\* hash * 31 on 32 bits, by multiplication
Times31(h) ==
    LET lo == h.lo * 31
    IN  [hi |-> (h.hi * 31 + (lo \div Half)) % Half, lo |-> lo % Half]

\* the fold the specification words describe, over the first n characters
RECURSIVE FoldAsStated(_, _)
FoldAsStated(s, n) ==
    IF n = 0 THEN [hi |-> 0, lo |-> 0]
    ELSE LET h == FoldAsStated(s, n - 1)
         IN  Plus(Minus(Times31(h), h), s[n])

\* the fold hash * 31 + c, over the first n characters
RECURSIVE Fold31(_, _)
Fold31(s, n) ==
    IF n = 0 THEN [hi |-> 0, lo |-> 0]
    ELSE Plus(Times31(Fold31(s, n - 1)), s[n])

\* the magnitude a key of base-36 digits stands for, as two halves
RECURSIVE Parse36(_)
Parse36(key) ==
    IF key = <<>> THEN [hi |-> 0, lo |-> 0]
    ELSE LET m == Parse36(SubSeq(key, 1, Len(key) - 1))
             d == CHOOSE n \in 0..35 : Digits36[n + 1] = key[Len(key)]
             lo == m.lo * 36 + d
         IN  [hi |-> m.hi * 36 + (lo \div Half), lo |-> lo % Half]

\* the key is the base-36 numeral of the magnitude of the final hash
KeyEncodesAbs ==
    fp.pc = "done" =>
        /\ fp.key # <<>>
        /\ \A i \in DOMAIN fp.key : \E n \in 1..36 : Digits36[n] = fp.key[i]
        /\ Len(fp.key) > 1 => fp.key[1] # "0"
        /\ Parse36(fp.key) = (IF IsNegative(fp.hash) THEN Minus([hi |-> 0, lo |-> 0], fp.hash)
                              ELSE fp.hash)

\* C25 as stated: the fold starts at 0 and takes hash to hash*31 - hash + c,
\* wrapped to 32 bits, at each character; the key is the base-36 numeral of
\* the absolute value of the final hash.
C25_AsStated ==
    /\ fp.hash = FoldAsStated(fp.fingerprint, fp.i)
    /\ KeyEncodesAbs

\* C25, amended: the fold starts at 0 and takes hash to hash*32 - hash + c,
\* that is hash*31 + c, wrapped to 32 bits, at each character; the key is the
\* base-36 numeral of the absolute value of the final hash.
C25_FoldsBy31AndEncodesAbs ==
    /\ fp.hash = Fold31(fp.fingerprint, fp.i)
    /\ KeyEncodesAbs

\* a string of the longest length whose hash wrapped to a negative value was
\* hashed to the end and its key returned
C25_Witness ==
    /\ fp.pc = "done"
    /\ fp.i = MaxFingerprintLen
    /\ IsNegative(fp.hash)
    /\ Len(fp.key) >= 6

\* C26: with the configuration unchanged, every record holds at most
\* maxRequests timestamps, in non-decreasing order, the newest less than
\* windowMs after the oldest.
C26_RecordsBoundedSortedWithinWindow ==
    \A ip \in DOMAIN clients :
        LET requests == clients[ip].requests
        IN  /\ Len(requests) <= config.maxRequests
            /\ \A i, j \in DOMAIN requests : i <= j => requests[i] <= requests[j]
            /\ \A i, j \in DOMAIN requests : requests[j] - requests[i] < config.windowMs

\* the watched key's record is full, with timestamps taken at different
\* times, and a later call was denied without changing it
C26_Witness ==
    /\ Watched \in DOMAIN clients
    /\ Len(clients[Watched].requests) = config.maxRequests
    /\ config.maxRequests >= 2
    /\ clients[Watched].requests[1] < clients[Watched].requests[2]
    /\ ret.ip = Watched
    /\ ret.path = "limit"

\* C27: every blocked key has a pending unblock timer; clearBlockedIPs
\* empties the blocked set and leaves every timer pending; a timer that fires
\* takes its key out of the blocked set, whichever block scheduled it.
C27_BlockedKeyHasTimerClearKeepsTimers ==
    [][/\ \A ip \in blockedIPs' : \E tm \in BagToSet(timers') : tm.ip = ip
       /\ clears' # clears => (blockedIPs' = {} /\ timers' = timers)
       /\ \A tm \in BagToSet(timers) :
            (timers' = timers (-) SetToBag({tm}) /\ timers' # timers)
                => (tm.ip \notin blockedIPs' /\ blockedIPs' = blockedIPs \ {tm.ip})]_vars

\* the key was blocked, clearBlockedIPs was called, the key was blocked
\* again, and the timer of the first block fired and unblocked it: the timer
\* of the second block is still pending and not yet due
C27_Witness ==
    /\ clears = 1
    /\ lastBlock.at >= 0
    /\ ~lastBlock.cleared
    /\ now < lastBlock.at + lastBlock.dur
    /\ Watched \notin blockedIPs
    /\ BagIn([ip |-> Watched, due |-> lastBlock.at + lastBlock.dur], timers)
    /\ \A tm \in BagToSet(timers) : tm.ip = Watched => tm.due > now

(***************************************************************************)
(* SpecClear: checkRateLimit calls and clearBlockedIPs, the watched key's  *)
(* record at the clearBlockedIPs call kept, and whether the key was        *)
(* checked since.                                                          *)
(***************************************************************************)
CheckClear == \E ip \in Keys :
    /\ CheckRateLimit(ip)
    /\ atClear' = IF ip = Watched /\ atClear.at >= 0
                  THEN [atClear EXCEPT !.called = TRUE] ELSE atClear
    /\ UNCHANGED <<run, admitted, lastBlock, probe, trace, clears, reset, app, fp, epVars>>

ClearClear ==
    /\ clears < MaxClears
    /\ clears' = clears + 1
    /\ ClearBlockedIPs
    /\ atClear' = [at |-> now, requests |-> ClientOf(Watched).requests, called |-> FALSE]
    /\ UNCHANGED <<run, admitted, lastBlock, probe, trace, reset, app, fp, epVars>>

NextClear ==
    \/ CheckClear
    \/ ClearClear
    \/ UnblockStep
    \/ CleanupStep
    \/ TickStep

SpecClear == Init /\ [][NextClear]_vars

\* C28: clearBlockedIPs restores no quota.  When the key's record held
\* maxRequests timestamps inside the window at the clearBlockedIPs call, the
\* first checkRateLimit call for the key after it, made while maxRequests of
\* those timestamps are still inside the window, returns false and puts the
\* key back in the blocked set.
C28_ClearRestoresNoQuota ==
    [][(/\ CheckRateLimit(Watched)
        /\ atClear.at >= 0
        /\ ~atClear.called
        /\ Len(InWindow(atClear.requests, now, config.windowMs)) >= config.maxRequests)
        => /\ ret'.val = FALSE
           /\ Watched \notin blockedIPs
           /\ Watched \in blockedIPs']_vars

\* the key was blocked, clearBlockedIPs lifted the block with the key's
\* record full, and the key's next call, made later with the record still
\* full, was denied and blocked it again
C28_Witness ==
    /\ atClear.at >= 0
    /\ atClear.called
    /\ now > atClear.at
    /\ now < config.blockDurationMs
    /\ Len(InWindow(atClear.requests, now, config.windowMs)) >= config.maxRequests
    /\ ret.op = "checkRateLimit"
    /\ ret.ip = Watched
    /\ ret.val = FALSE
    /\ ret.path = "limit"
    /\ ret.recs = config.maxRequests
    /\ Watched \in blockedIPs

(***************************************************************************)
(* QuadKernEndpointProtection.  makeRequest runs to its await in one step; *)
(* a call in flight then stands at a fetch or at a delay of its            *)
(* executeRequest, and the step that settles its last fetch runs the rest  *)
(* of makeRequest too: between the two only microtasks run.  A fetch       *)
(* settles with a parsed body, with a response that is not ok, or with a   *)
(* rejection; once the call's controller has aborted, with a rejection     *)
(* only.  No options are passed.                                           *)
(***************************************************************************)
\* how many calls are in flight at most, the attempts configured at most
MaxInFlight == 2
MaxRetries == 3

\* the registered endpoints and their methods, and an id that is not registered
Endpoints == [contact |-> "POST", projects |-> "GET"]

EndpointIds == DOMAIN Endpoints \cup {"missing"}

\* the data argument: left out, an empty object, an object with a field
Datas == {"undefined", "{}", "{q:1}"}

\* JSON.stringify(data || {})
JsonOf(data) == IF data = "undefined" THEN "{}" ELSE data

\* `${endpointId}_${JSON.stringify(data || {})}`
CacheKey(endpointId, data) == <<endpointId, JsonOf(data)>>

\* `${endpointId}_${Date.now()}`
RequestKey(endpointId) == <<endpointId, now>>

\* the ways a fetch attempt fails while the controller has not aborted: the
\* response is not ok, or fetch or response.json() rejects; the catch block
\* treats them alike
Failures == {"Error"}

\* Math.pow(2, n)
RECURSIVE Pow2(_)
Pow2(n) == IF n = 0 THEN 1 ELSE 2 * Pow2(n - 1)

\* the delay growing by a second an attempt
DelayMs_Linear(attempt) == attempt * 1000

\* Math.pow(2, attempt) * 1000
DelayMs(attempt) == Pow2(attempt) * 1000

\* a function without one of its keys
MapDelete(m, k) == [x \in DOMAIN m \ {k} |-> m[x]]

\* getFromCache without the age test
GetFromCache_ServesStale(endpointId, data) ==
    LET cacheKey == CacheKey(endpointId, data)
    IN  IF cacheKey \notin DOMAIN cache
        THEN [hit |-> FALSE, data |-> NoValue, cache |-> cache]
        ELSE [hit |-> TRUE, data |-> cache[cacheKey].data, cache |-> cache]

\* getFromCache: what it returns (hit, data) and the cache it leaves
GetFromCache(endpointId, data) ==
    LET cacheKey == CacheKey(endpointId, data)
    IN  IF cacheKey \notin DOMAIN cache
        THEN [hit |-> FALSE, data |-> NoValue, cache |-> cache]
        ELSE IF now - cache[cacheKey].timestamp > epConfig.cacheTimeout
        THEN [hit |-> FALSE, data |-> NoValue, cache |-> MapDelete(cache, cacheKey)]
        ELSE [hit |-> TRUE, data |-> cache[cacheKey].data, cache |-> cache]

\* setCache: the cache it leaves
SetCache(endpointId, data, result) ==
    MapSet(cache, CacheKey(endpointId, data), [data |-> result, timestamp |-> now])

\* executeRequest up to its first await: the abort timer set, the first fetch
\* issued; with no attempt configured the loop is skipped and lastError,
\* never assigned, is thrown
ExecuteRequest(endpointId, data) ==
    [endpointId |-> endpointId, method |-> Endpoints[endpointId], data |-> data,
     requestKey |-> RequestKey(endpointId),
     attempt |-> IF epConfig.retries >= 1 THEN 1 ELSE 0,
     pc |-> IF epConfig.retries >= 1 THEN "fetch" ELSE "throw",
     until |-> 0, failedAt |-> 0,
     abortAt |-> now + epConfig.timeout, aborted |-> FALSE,
     lastError |-> "undefined", errors |-> <<>>, waits |-> <<>>]

\* the ids free for a call; a call takes the lowest
FreeIds == (1..MaxInFlight) \ DOMAIN calls

\* what the page holds besides the endpoint protection and the clock
restVars == <<config, clients, blockedIPs, suspiciousIPs, timers, cleanupDue, ret,
              run, admitted, lastBlock, probe, trace, clears, reset, app, fp, atClear>>

\* done: the makeRequest call that settled last
DoneOf(call, outcome, value, error) ==
    [endpointId |-> call.endpointId, data |-> call.data, from |-> "fetch",
     outcome |-> outcome, value |-> value, error |-> error, attempts |-> call.attempt,
     waits |-> call.waits, errors |-> call.errors, at |-> now]

\* makeRequest(endpointId, data) up to its return or its await
MakeRequest(endpointId, data) ==
    IF endpointId \notin DOMAIN Endpoints
    THEN /\ done' = [NoDone EXCEPT !.endpointId = endpointId, !.data = data,
                                   !.outcome = "rejected", !.error = "NotFound",
                                   !.at = now]
         /\ UNCHANGED <<now, epConfig, cache, requestQueue, calls, cacheDue>>
    ELSE IF RequestKey(endpointId) \in DOMAIN requestQueue
    THEN /\ done' = [NoDone EXCEPT !.endpointId = endpointId, !.data = data,
                                   !.from = "queue", !.outcome = "pending", !.at = now]
         /\ UNCHANGED <<now, epConfig, cache, requestQueue, calls, cacheDue>>
    ELSE LET lookup == IF epConfig.enableCache /\ Endpoints[endpointId] = "GET"
                       THEN GetFromCache(endpointId, data)
                       ELSE [hit |-> FALSE, data |-> NoValue, cache |-> cache]
         IN  IF lookup.hit /\ lookup.data.truthy
             THEN /\ done' = [NoDone EXCEPT !.endpointId = endpointId, !.data = data,
                                            !.from = "cache", !.outcome = "resolved",
                                            !.value = lookup.data, !.at = now]
                  /\ UNCHANGED <<now, epConfig, cache, requestQueue, calls, cacheDue>>
             ELSE \E id \in FreeIds :
                    /\ \A other \in FreeIds : id <= other
                    /\ cache' = lookup.cache
                    /\ calls' = MapSet(calls, id, ExecuteRequest(endpointId, data))
                    /\ requestQueue' = MapSet(requestQueue, RequestKey(endpointId), id)
                    /\ UNCHANGED <<now, epConfig, cacheDue, done>>

\* the call's executeRequest returned or threw: the rest of makeRequest
Settle(id, call, outcome, value, error) ==
    /\ cache' = IF outcome = "resolved" /\ epConfig.enableCache /\ call.method = "GET"
                THEN SetCache(call.endpointId, call.data, value)
                ELSE cache
    /\ requestQueue' = MapDelete(requestQueue, call.requestKey)
    /\ calls' = MapDelete(calls, id)
    /\ done' = DoneOf(call, outcome, value, error)

\* the outcomes the fetch of a call can have
FetchOutcomes(call) ==
    IF call.aborted THEN {"AbortError"} ELSE Failures \cup {"ok", "okFalsy"}

\* the fetch a call awaits settles; the loop of executeRequest goes on to
\* its next await, its return or its throw
FetchSettles(id, outcome) ==
    /\ id \in DOMAIN calls
    /\ calls[id].pc = "fetch"
    /\ outcome \in FetchOutcomes(calls[id])
    /\ LET call == calls[id]
           caught == [call EXCEPT !.lastError = outcome, !.errors = Append(call.errors, outcome)]
       IN  IF outcome \in {"ok", "okFalsy"}
           THEN Settle(id, call, "resolved",
                       [at |-> now, truthy |-> (outcome = "ok")],
                       "none")
           ELSE IF call.attempt < epConfig.retries
           THEN /\ calls' = MapSet(calls, id,
                                   [caught EXCEPT !.pc = "delay", !.failedAt = now,
                                                  !.until = now + DelayMs(call.attempt)])
                /\ UNCHANGED <<cache, requestQueue, done>>
           ELSE Settle(id, caught, "rejected", NoValue, caught.lastError)
    /\ UNCHANGED <<now, epConfig, cacheDue>>

\* no attempt was configured: throw lastError, which is undefined
ThrowsUndefined(id) ==
    /\ id \in DOMAIN calls
    /\ calls[id].pc = "throw"
    /\ Settle(id, calls[id], "rejected", NoValue, calls[id].lastError)
    /\ UNCHANGED <<now, epConfig, cacheDue>>

\* the setTimeout of delay fires: the next attempt is fetched
DelayEnds(id) ==
    /\ id \in DOMAIN calls
    /\ calls[id].pc = "delay"
    /\ calls[id].until <= now
    /\ LET call == calls[id]
       IN  calls' = MapSet(calls, id,
                           [call EXCEPT !.pc = "fetch", !.attempt = call.attempt + 1,
                                        !.waits = Append(call.waits,
                                                         [ms |-> call.until - call.failedAt,
                                                          slept |-> now - call.failedAt])])
    /\ UNCHANGED <<now, epConfig, cache, requestQueue, cacheDue, done>>

\* the setTimeout of executeRequest fires: controller.abort()
Abort(id) ==
    /\ id \in DOMAIN calls
    /\ ~calls[id].aborted
    /\ calls[id].abortAt <= now
    /\ calls' = MapSet(calls, id, [calls[id] EXCEPT !.aborted = TRUE])
    /\ UNCHANGED <<now, epConfig, cache, requestQueue, cacheDue, done>>

\* the setInterval callback of startCacheCleanup
CacheCleanup ==
    /\ cacheDue <= now
    /\ cache' = [k \in {x \in DOMAIN cache :
                          ~(now - cache[x].timestamp > epConfig.cacheTimeout)} |-> cache[k]]
    /\ cacheDue' = cacheDue + CacheCleanupIntervalMs
    /\ UNCHANGED <<now, epConfig, requestQueue, calls, done>>

\* clearCache()
ClearCache ==
    /\ cache' = <<>>
    /\ UNCHANGED <<now, epConfig, requestQueue, calls, cacheDue, done>>

\* a call is waiting for time to pass
Delaying == \E id \in DOMAIN calls : calls[id].pc = "delay"

\* every timer that is due has fired
PunctualEndpoints ==
    /\ cacheDue > now
    /\ \A id \in DOMAIN calls :
         /\ calls[id].pc = "delay" => calls[id].until > now
         /\ calls[id].aborted \/ calls[id].abortAt > now

\* Date.now() moves on by ms, up to maxTime or for as long as a call is delaying
Elapse(ms, maxTime) ==
    /\ now + ms <= maxTime \/ Delaying
    /\ PunctualEndpoints
    /\ now' = now + ms
    /\ UNCHANGED <<epConfig, cache, requestQueue, calls, cacheDue, done>>

(***************************************************************************)
(* The steps of the endpoint protection the specifications share.          *)
(***************************************************************************)
FetchSettlesStep == \E id \in DOMAIN calls, outcome \in Failures \cup {"ok", "okFalsy", "AbortError"} :
    /\ FetchSettles(id, outcome)
    /\ UNCHANGED restVars

ThrowsUndefinedStep == \E id \in DOMAIN calls :
    /\ ThrowsUndefined(id)
    /\ UNCHANGED restVars

DelayEndsStep == \E id \in DOMAIN calls :
    /\ DelayEnds(id)
    /\ UNCHANGED restVars

AbortStep == \E id \in DOMAIN calls :
    /\ Abort(id)
    /\ UNCHANGED restVars

CacheCleanupStep == CacheCleanup /\ UNCHANGED restVars

ClearCacheStep == ClearCache /\ UNCHANGED restVars

(***************************************************************************)
(* SpecRetry: makeRequest calls and the attempts of their executeRequest,  *)
(* on a clock fine enough to tell the delays apart, with the event loop's  *)
(* scheduling: time passes, a fetch settles, a timer that is due fires.    *)
(* Calls are made one at a time, without data, up to MaxRetryTicks ticks   *)
(* in.                                                                     *)
(***************************************************************************)
RetryTickMs == 1000
MaxRetryTicks == 4

RetryConfigs ==
    [timeout : {3 * RetryTickMs, 10 * RetryTickMs}, retries : 0..MaxRetries,
     enableCache : {TRUE}, cacheTimeout : {DefaultEndpointConfig.cacheTimeout}]

InitRetry ==
    /\ InitThrottle({ScenarioConfig})
    /\ fp = NoFp
    /\ InitEndpoints(RetryConfigs)

MakeRequestRetry == \E endpointId \in EndpointIds :
    /\ now <= MaxRetryTicks * RetryTickMs
    /\ calls = <<>>
    /\ MakeRequest(endpointId, "undefined")
    /\ UNCHANGED restVars

ElapseRetry ==
    /\ Elapse(RetryTickMs, MaxRetryTicks * RetryTickMs)
    /\ UNCHANGED restVars

NextRetry ==
    \/ MakeRequestRetry
    \/ FetchSettlesStep
    \/ ThrowsUndefinedStep
    \/ DelayEndsStep
    \/ AbortStep
    \/ ElapseRetry

SpecRetry ==
    /\ InitRetry
    /\ [][NextRetry]_vars
    /\ WF_vars(FetchSettlesStep)
    /\ WF_vars(ThrowsUndefinedStep)
    /\ WF_vars(DelayEndsStep)
    /\ WF_vars(AbortStep)
    /\ WF_vars(ElapseRetry)

\* what C29 says of the call that settled last, when executeRequest ran for it
RetriedAsConfigured ==
    (done.from = "fetch" /\ epConfig.retries >= 1) =>
        /\ done.attempts >= 1
        /\ done.attempts <= epConfig.retries
        /\ Len(done.errors) = (IF done.outcome = "resolved" THEN done.attempts - 1
                               ELSE done.attempts)
        /\ done.outcome = "resolved" => done.value.at = done.at
        /\ Len(done.waits) = done.attempts - 1
        /\ \A a \in DOMAIN done.waits :
             /\ done.waits[a].ms = Pow2(a) * 1000
             /\ done.waits[a].slept >= done.waits[a].ms
        /\ done.outcome = "rejected" =>
             /\ done.attempts = epConfig.retries
             /\ done.error = done.errors[epConfig.retries]

CacheTickMs == 20000
MaxCacheTicks == 3

CacheConfigs ==
    [timeout : {DefaultEndpointConfig.timeout}, retries : {1},
     enableCache : BOOLEAN, cacheTimeout : {CacheTickMs}]

InitCache ==
    /\ InitThrottle({ScenarioConfig})
    /\ fp = NoFp
    /\ InitEndpoints(CacheConfigs)

MakeRequestCache == \E endpointId \in DOMAIN Endpoints, data \in {"undefined", "{q:1}"} :
    /\ now <= MaxCacheTicks * CacheTickMs
    /\ MakeRequest(endpointId, data)
    /\ UNCHANGED restVars

ElapseCache ==
    /\ Elapse(CacheTickMs, MaxCacheTicks * CacheTickMs)
    /\ UNCHANGED restVars

NextCache ==
    \/ MakeRequestCache
    \/ FetchSettlesStep
    \/ AbortStep
    \/ CacheCleanupStep
    \/ ClearCacheStep
    \/ ElapseCache

SpecCache == InitCache /\ [][NextCache]_vars

\* the calls a step settles, and the cache entries it writes
SettledCalls == DOMAIN calls \ DOMAIN calls'

Written == {k \in DOMAIN cache' : k \notin DOMAIN cache \/ cache'[k] # cache[k]}

\* C30: makeRequest returns a value from the cache only for a GET endpoint
\* with caching on, and only a value whose entry is at most cacheTimeout old;
\* a lookup that finds an entry older than cacheTimeout deletes it and a
\* fresh request is executed; an entry is written only with the result of a
\* GET request that succeeded, at the time it succeeded; a request that
\* failed wrote nothing, and its requestQueue entry is gone.
C30_CacheServesFreshGetResultsOnly ==
    [][/\ (done' # done /\ done'.from = "cache") =>
            LET k == CacheKey(done'.endpointId, done'.data)
            IN  /\ Endpoints[done'.endpointId] = "GET"
                /\ epConfig.enableCache
                /\ k \in DOMAIN cache
                /\ done'.value = cache[k].data
                /\ now - cache[k].timestamp <= epConfig.cacheTimeout
                /\ calls' = calls
       /\ \A e \in DOMAIN Endpoints, d \in Datas :
            LET k == CacheKey(e, d)
            IN  (/\ Endpoints[e] = "GET"
                 /\ epConfig.enableCache
                 /\ RequestKey(e) \notin DOMAIN requestQueue
                 /\ k \in DOMAIN cache
                 /\ now - cache[k].timestamp > epConfig.cacheTimeout
                 /\ MakeRequest(e, d))
                => /\ k \notin DOMAIN cache'
                   /\ \E id \in DOMAIN calls' \ DOMAIN calls :
                        /\ calls'[id].endpointId = e
                        /\ calls'[id].data = d
                        /\ calls'[id].pc = "fetch"
       /\ \A k \in Written :
            /\ epConfig.enableCache
            /\ done'.from = "fetch"
            /\ done'.outcome = "resolved"
            /\ cache'[k] = [data |-> done'.value, timestamp |-> now]
            /\ \E id \in SettledCalls :
                 /\ calls[id].method = "GET"
                 /\ CacheKey(calls[id].endpointId, calls[id].data) = k
       /\ \A id \in SettledCalls :
            done'.outcome = "rejected"
                => /\ Written = {}
                   /\ calls[id].requestKey \notin DOMAIN requestQueue']_vars

\* a call was answered from the cache with a value stored exactly
\* cacheTimeout before
C30_Witness ==
    /\ done.from = "cache"
    /\ done.outcome = "resolved"
    /\ done.endpointId = "projects"
    /\ done.at = now
    /\ done.value.at = now - epConfig.cacheTimeout

====
